---- MODULE Spec2Model ----
(***************************************************************************)
(* License server: the license lifecycle of sebastian5711/license-server.   *)
(* The repository holds two variants of the same FastAPI application,       *)
(* src/main.py and src/server.py, over one SQLite table license_keys.  The  *)
(* model runs either variant (the variable `variant`, fixed at Init) over   *)
(* the same table.                                                          *)
(*                                                                          *)
(* Time is in whole seconds.  main.py's now_iso() truncates to the second   *)
(* and compares ISO-8601 strings of one fixed width, which order as the     *)
(* seconds they denote; server.py compares datetimes.  Every call of        *)
(* now_iso()/utcnow()/datetime.now() is a separate read of the clock.       *)
(*                                                                          *)
(* Each HTTP request opens its own SQLite connection.  A SELECT that        *)
(* returns its single row and a later UPDATE + commit are two separate      *)
(* transactions, so a handler's read and write are separate steps; a        *)
(* handler that issues one UPDATE (or one batch of INSERTs) and commits is  *)
(* one step.                                                                *)
(***************************************************************************)
EXTENDS Integers, Sequences, FiniteSets, TLC

VARIABLES variant, store, clock, ticks, proc, adminResp, hist

vars == <<variant, store, clock, ticks, proc, adminResp, hist>>

(***************************************************************************)
(* Bounds of the model.                                                     *)
(***************************************************************************)
\* how many times the clock advances in one behaviour of SpecTime, of Spec
\* and of SpecBatch
MaxTicks == 3
RaceTicks == 1
BatchTicks == 1
\* the largest batch an AdminCreate of the model asks for
MaxCount == 2
\* the largest `days` an AdminCreate of the model asks for
MaxDays == 1

(***************************************************************************)
(* Program constants.                                                       *)
(***************************************************************************)
ADMIN_TOKEN == "CHANGE_ME_ADMIN_TOKEN"
\* datetime.timedelta(days=1), in seconds
Day == 86400
\* admin_create_keys: count must be 1..500 (main.py), 1..200 (server.py)
MainMaxCount == 500
ServerMaxCount == 200
\* server.py AdminCreateReq: days: int = Field(ge=0, le=3650)
ServerMaxDays == 3650
\* server.py ActivateReq: hwid: str = Field(..., min_length=3)
HwidMinLength == 3

Variants == {"main", "server"}
\* The key generator draws from this space (a small stand-in for the random
\* tokens of secrets.token_urlsafe / secrets.token_hex).
Keys == {"K1", "K2"}
Hwids == {"", "hwA", "hwB"}
Tokens == {ADMIN_TOKEN, "bad"}
Notes == {"n1"}
Procs == {1, 2}

\* len() of the request strings of the model
StrLen(s) == IF s = "" THEN 0 ELSE 3

\* SQL NULL / Python None; a present value v is <<v>>
NULL == <<>>
Some(v) == <<v>>
\* Python truthiness of an optional string: None and "" are falsy
Truthy(x) == x # NULL /\ x[1] # ""

\* no row for the key in license_keys
NoRow == [absent |-> TRUE]

\* the clock advances by a second, or (between requests) by a day less a second
Second == 1

(***************************************************************************)
(* State.                                                                   *)
(*   store      the table license_keys: one row per key, or NoRow           *)
(*   clock      the wall clock, in seconds                                  *)
(*   ticks      how often the clock has advanced (bounds the model)         *)
(*   proc       the /activate requests in flight, each with the handler's   *)
(*              locals and its position                                     *)
(*   adminResp  the last admin request and the response it got              *)
(*   hist       per key, what callers have been told so far (history, read  *)
(*              by no handler)                                              *)
(***************************************************************************)

Row(key_type, days, created_at, note) ==
  [key_type |-> key_type, days |-> days, created_at |-> created_at,
   activated_at |-> NULL, expires_at |-> NULL, hwid |-> NULL,
   note |-> note, revoked |-> FALSE]

NoResp == [code |-> 0, detail |-> "", expires_at |-> NULL, never |-> FALSE]

\* A worker.  key, hwid: the request; row, activated_at, expires_at: the
\* handler's locals; wrote: it has run its UPDATE; resp: its response.
\* History: t_check, the clock its expiry check read; expiredAtSel, the row it
\* read had an expiry in the past; afterRevoke, the request came after a
\* revoke of its key answered ok; sinceOwn, it came after its hwid was told it
\* had bound the key, with no revoke or reset since; afterReset, it is the
\* first to read the row after a reset of a bound, unrevoked key; crossed, a
\* revoke or reset of its key answered ok while it was running.
IdleProc ==
  [pc |-> "idle", key |-> "", hwid |-> "", row |-> NoRow,
   activated_at |-> NULL, expires_at |-> NULL,
   expiredAtSel |-> FALSE, t_check |-> NULL, wrote |-> FALSE, resp |-> NoResp,
   afterRevoke |-> FALSE, sinceOwn |-> FALSE, afterReset |-> FALSE,
   crossed |-> FALSE]

\* Per key: revokedOk, a revoke of the key has answered ok; first, the hwid
\* that was first told it had bound the key, and the expiry it stored, since
\* the key was issued or last reset or revoked; second, another hwid has been
\* told the same since; resetPending, a reset of the key while bound and
\* unrevoked answered ok and no activation has written since.
NoHist == [revokedOk |-> FALSE, first |-> NULL, second |-> FALSE, resetPending |-> FALSE]

NoAdmin == [op |-> "none"]

Init ==
  /\ variant \in Variants
  /\ store = [k \in Keys |-> NoRow]
  /\ clock = 0
  /\ ticks = 0
  /\ proc = [p \in Procs |-> IdleProc]
  /\ adminResp = NoAdmin
  /\ hist = [k \in Keys |-> NoHist]

(***************************************************************************)
(* The clock.  A request lasts far less than a day: the clock moves by      *)
(* seconds while a handler runs and by a day less a second only while none  *)
(* does.  The handlers store clock readings and compare a reading with a    *)
(* stored one, and nothing is stored before the first INSERT: time is       *)
(* counted from the first INSERT on.                                        *)
(***************************************************************************)
TickSecond(limit) ==
  /\ ticks < limit
  /\ \E k \in Keys : store[k] # NoRow
  /\ clock' = clock + Second
  /\ ticks' = ticks + 1
  /\ UNCHANGED <<variant, store, proc, adminResp, hist>>

TickDay(limit) ==
  /\ ticks < limit
  /\ \E k \in Keys : store[k] # NoRow
  /\ \A p \in Procs : proc[p].pc \in {"idle", "done"}
  /\ clock' = clock + Day - Second
  /\ ticks' = ticks + 1
  /\ UNCHANGED <<variant, store, proc, adminResp, hist>>

(***************************************************************************)
(* POST /activate.                                                          *)
(***************************************************************************)

\* The handler's response.  main.py: {"ok", "status", "expires_at" or "NEVER"}
\* or HTTPException(401, detail); server.py: ActivateResp or
\* HTTPException(404 | 403, detail).
Http(code, detail) == [code |-> code, detail |-> detail, expires_at |-> NULL, never |-> FALSE]

\* main.py: "expires_at": expires_at or "NEVER"; server.py: expires_at as it is
Success(status, expires_at) ==
  [code |-> 200, detail |-> status, expires_at |-> expires_at,
   never |-> (variant = "main" /\ expires_at = NULL)]

\* The handler returns: the response goes to the caller.  A 200 of a request
\* that wrote the binding is a first activation (main.py says status BOUND);
\* the history takes it as one when no revoke or reset came while it ran.
\* One response is looked at at a time: a worker holds its response (pc
\* "done") until activate_return, which touches nothing else, and another
\* worker's response waits for that.
Respond(p, pr, r, h) ==
  LET k == pr.key
      bound == r.code = 200 /\ pr.wrote /\ ~pr.crossed
  IN /\ \A q \in Procs \ {p} : proc[q].pc # "done"
     /\ proc' = [proc EXCEPT ![p] = [pr EXCEPT !.pc = "done", !.resp = r]]
     /\ hist' = IF ~bound THEN h
                ELSE IF h[k].first = NULL
                  THEN [h EXCEPT ![k].first = Some([hwid |-> pr.hwid,
                                                    expires_at |-> pr.expires_at])]
                ELSE IF h[k].first[1].hwid # pr.hwid
                  THEN [h EXCEPT ![k].second = TRUE]
                ELSE h

Goto(p, pr, pc) ==
  /\ proc' = [proc EXCEPT ![p] = [pr EXCEPT !.pc = pc]]
  /\ hist' = hist

\* main.py 201-207: already bound, must match
MainMatch(p, pr) ==
  IF pr.row.hwid # Some(pr.hwid)
    THEN Respond(p, pr, Http(401, "HWID mismatch"), hist)
    ELSE Respond(p, pr, Success("OK", pr.row.expires_at), hist)

\* main.py 186-207, after the expiry check
MainAfterExpiry(p, pr) ==
  IF ~Truthy(pr.row.hwid) THEN Goto(p, pr, "bind_now") ELSE MainMatch(p, pr)

\* server.py 150-151
ServerSuccess(p, pr, h) == Respond(p, pr, Success("", pr.expires_at), h)

\* if key_type == "timed" and expires_at
NeedsExpiryCheck(key_type, expires_at) == key_type = "timed" /\ expires_at # NULL

\* the columns of a row that the handler reads (main.py selects them,
\* server.py selects * and reads these)
Selected(row) ==
  IF row = NoRow THEN NoRow
  ELSE [key_type |-> row.key_type, days |-> row.days,
        activated_at |-> row.activated_at, expires_at |-> row.expires_at,
        hwid |-> row.hwid, revoked |-> row.revoked]

\* main.py 166-185: the checks on the row read
MainSelect(p, pr) ==
  LET row == pr.row
  IN IF row = NoRow THEN Respond(p, pr, Http(401, "Invalid key"), hist)
     ELSE IF row.revoked THEN Respond(p, pr, Http(401, "Key revoked"), hist)
     ELSE IF NeedsExpiryCheck(row.key_type, row.expires_at) THEN Goto(p, pr, "expiry")
     ELSE MainAfterExpiry(p, pr)

\* server.py 101-125 and 140-151: the checks on the row read
ServerSelect(p, pr) ==
  LET row == pr.row
  IN IF row = NoRow THEN Respond(p, pr, Http(404, "Key not found"), hist)
     ELSE IF row.revoked THEN Respond(p, pr, Http(403, "Key revoked"), hist)
     ELSE IF Truthy(row.hwid) /\ row.hwid # Some(pr.hwid)
       THEN Respond(p, pr, Http(403, "HWID mismatch (key already bound)"), hist)
     ELSE LET ps == [pr EXCEPT !.activated_at = row.activated_at,
                               !.expires_at = row.expires_at]
          IN IF ~Truthy(row.hwid) THEN Goto(p, ps, "bind_now")
             ELSE IF NeedsExpiryCheck(row.key_type, ps.expires_at)
               THEN Goto(p, ps, "expiry")
             ELSE ServerSuccess(p, ps, hist)

\* The request arrives and the handler reads the row.  server.py's
\* ActivateReq refuses a hwid under 3 characters before the handler runs.
activate_select(p, k, h) ==
  /\ proc[p].pc = "idle"
  /\ LET row == Selected(store[k])
         pr == [IdleProc EXCEPT
                  !.key = k, !.hwid = h, !.row = row,
                  !.afterRevoke = hist[k].revokedOk,
                  !.sinceOwn = (hist[k].first # NULL /\ hist[k].first[1].hwid = h),
                  !.expiredAtSel = (row # NoRow /\ row.expires_at # NULL
                                    /\ clock > row.expires_at[1]),
                  !.afterReset = (row # NoRow /\ hist[k].resetPending)]
     IN IF variant = "main" THEN MainSelect(p, pr)
        ELSE IF StrLen(h) < HwidMinLength
          THEN Respond(p, [pr EXCEPT !.row = NoRow, !.expiredAtSel = FALSE,
                                     !.afterReset = FALSE],
                       Http(422, "validation error"), hist)
        ELSE ServerSelect(p, pr)
  /\ UNCHANGED <<variant, store, clock, ticks, adminResp>>

\* now > expires_at, strictly: main.py 182 on the ISO strings, server.py 146
\* on the datetimes
IsExpired(now, expires_at) == now > expires_at[1]

\* the expiry check: a read of the clock against the expiry the handler holds
activate_expiry(p) ==
  /\ proc[p].pc = "expiry"
  /\ LET pr == [proc[p] EXCEPT !.t_check = Some(clock)]
     IN IF variant = "main"
          THEN IF IsExpired(clock, pr.row.expires_at)
                 THEN Respond(p, pr, Http(401, "Key expired"), hist)
                 ELSE MainAfterExpiry(p, pr)
          ELSE IF IsExpired(clock, pr.expires_at)
                 THEN Respond(p, pr, Http(403, "Key expired"), hist)
                 ELSE ServerSuccess(p, pr, hist)
  /\ UNCHANGED <<variant, store, clock, ticks, adminResp>>

\* a handler that computes an expiry for every key, whatever its type
IsTimedKey_Always(key_type) == TRUE

\* if row["key_type"] == "timed": only a timed key gets an expiry
IsTimedKey(key_type) == key_type = "timed"

\* first activation: activated_at = now_iso()
activate_bind_now(p) ==
  /\ proc[p].pc = "bind_now"
  /\ proc' = [proc EXCEPT ![p] =
                [@ EXCEPT !.activated_at = Some(clock),
                          !.expires_at = NULL,
                          !.pc = IF IsTimedKey(proc[p].row.key_type)
                                   THEN "bind_exp" ELSE "update"]]
  /\ UNCHANGED <<variant, store, clock, ticks, adminResp, hist>>

\* the expiry of a first activation: a second read of the clock, plus days
\* (main.py add_days_iso(int(row["days"])); server.py datetime.now(UTC) +
\* timedelta(days=days))
AddDays(now, days) == now + days * Day

activate_bind_exp(p) ==
  /\ proc[p].pc = "bind_exp"
  /\ proc' = [proc EXCEPT ![p] =
                [@ EXCEPT !.expires_at = Some(AddDays(clock, proc[p].row.days)),
                          !.pc = "update"]]
  /\ UNCHANGED <<variant, store, clock, ticks, adminResp, hist>>

\* UPDATE license_keys SET hwid = ?, activated_at = ?, expires_at = ?
\* WHERE license_key = ?: whatever the row holds by now
BindRow(row, hwid, activated_at, expires_at) ==
  IF row = NoRow THEN NoRow
  ELSE [row EXCEPT !.hwid = Some(hwid), !.activated_at = activated_at,
                   !.expires_at = expires_at]

\* the UPDATE and commit; main.py returns BOUND, server.py goes on to its
\* expiry check
activate_update(p) ==
  /\ proc[p].pc = "update"
  /\ LET pr == [proc[p] EXCEPT !.wrote = TRUE]
         k == pr.key
         h == [hist EXCEPT ![k].resetPending = FALSE]
     IN /\ store' = [store EXCEPT ![k] = BindRow(@, pr.hwid, pr.activated_at, pr.expires_at)]
        /\ IF variant = "main"
             THEN Respond(p, pr, Success("BOUND", pr.expires_at), h)
             ELSE IF NeedsExpiryCheck(pr.row.key_type, pr.expires_at)
               THEN /\ proc' = [proc EXCEPT ![p] = [pr EXCEPT !.pc = "expiry"]]
                    /\ hist' = h
               ELSE ServerSuccess(p, pr, h)
  /\ UNCHANGED <<variant, clock, ticks, adminResp>>

\* the caller has its response; the worker takes the next request
activate_return(p) ==
  /\ proc[p].pc = "done"
  /\ proc' = [proc EXCEPT ![p] = IdleProc]
  /\ UNCHANGED <<variant, store, clock, ticks, adminResp, hist>>

(***************************************************************************)
(* Admin operations.  Each handler is one step: its checks, its single      *)
(* UPDATE (or batch of INSERTs) and the commit.                             *)
(***************************************************************************)

\* a guard that lets every token pass
require_admin_Open(token) == TRUE

\* require_admin passes (main.py 42-44: token != ADMIN_TOKEN raises 401;
\* server.py 55-57: not token or token != ADMIN_TOKEN raises 401)
require_admin(token) ==
  IF variant = "main" THEN token = ADMIN_TOKEN
  ELSE ~(token = "" \/ token # ADMIN_TOKEN)

Unauthorized ==
  IF variant = "main" THEN [code |-> 401, detail |-> "Bad admin token"]
  ELSE [code |-> 401, detail |-> "Invalid admin token"]

AdminOk == [code |-> 200, detail |-> "ok"]
KeyNotFound == [code |-> 404, detail |-> "Key not found"]

\* the response to an admin request on one key
AdminKeyResp(op, token, key, r) ==
  [op |-> op, token |-> token, key |-> key, code |-> r.code, detail |-> r.detail]

\* the caller of an admin handler gets response r; it is kept in adminResp
\* when the specification observes the admin side (log)
Answer(log, r) == adminResp' = IF log THEN r ELSE adminResp

\* cur.rowcount of an UPDATE ... WHERE license_key = ?
RowCount(key) == IF store[key] = NoRow THEN 0 ELSE 1

\* what a handler answers after its UPDATE: main.py raises 404 when no row
\* matched, server.py answers ok whatever matched
AfterUpdate(key) ==
  IF variant = "main" /\ RowCount(key) = 0 THEN KeyNotFound ELSE AdminOk

\* a revoke or a reset that answered ok comes between the activations before
\* it and those after it
Intervene(key) ==
  [q \in Procs |-> IF proc[q].key = key /\ proc[q].pc # "idle"
                     THEN [proc[q] EXCEPT !.sinceOwn = FALSE,
                                          !.crossed = (proc[q].pc # "done")]
                     ELSE proc[q]]

\* a revoke that also takes the binding off the row
RevokeRow_Unbind(row) ==
  IF row = NoRow THEN NoRow
  ELSE [row EXCEPT !.revoked = TRUE, !.hwid = NULL, !.activated_at = NULL,
                   !.expires_at = NULL]

\* UPDATE license_keys SET revoked = 1 WHERE license_key = ?
RevokeRow(row) == IF row = NoRow THEN NoRow ELSE [row EXCEPT !.revoked = TRUE]

admin_revoke(token, key, log) ==
  /\ IF ~require_admin(token)
       THEN /\ Answer(log, AdminKeyResp("revoke", token, key, Unauthorized))
            /\ UNCHANGED <<store, proc, hist>>
       ELSE LET r == AfterUpdate(key)
            IN /\ Answer(log, AdminKeyResp("revoke", token, key, r))
               /\ store' = [store EXCEPT ![key] = RevokeRow(@)]
               /\ IF r.code = 200
                    THEN /\ hist' = [hist EXCEPT ![key].revokedOk = TRUE,
                                                 ![key].first = NULL,
                                                 ![key].second = FALSE,
                                                 ![key].resetPending = FALSE]
                         /\ proc' = Intervene(key)
                    ELSE UNCHANGED <<proc, hist>>
  /\ UNCHANGED <<variant, clock, ticks>>

\* a reset that clears the hwid and leaves the two times
ResetRow_HwidOnly(row) == IF row = NoRow THEN NoRow ELSE [row EXCEPT !.hwid = NULL]

\* UPDATE license_keys SET hwid = NULL, activated_at = NULL, expires_at = NULL
ResetRow(row) ==
  IF row = NoRow THEN NoRow
  ELSE [row EXCEPT !.hwid = NULL, !.activated_at = NULL, !.expires_at = NULL]

admin_reset_hwid(token, key, log) ==
  /\ IF ~require_admin(token)
       THEN /\ Answer(log, AdminKeyResp("reset_hwid", token, key, Unauthorized))
            /\ UNCHANGED <<store, proc, hist>>
       ELSE LET r == AfterUpdate(key)
                row == store[key]
            IN /\ Answer(log, AdminKeyResp("reset_hwid", token, key, r))
               /\ store' = [store EXCEPT ![key] = ResetRow(@)]
               /\ IF r.code = 200
                    THEN /\ hist' = [hist EXCEPT
                                       ![key].first = NULL,
                                       ![key].second = FALSE,
                                       ![key].resetPending =
                                          (row # NoRow /\ row.hwid # NULL /\ ~row.revoked)]
                         /\ proc' = Intervene(key)
                    ELSE UNCHANGED <<proc, hist>>
  /\ UNCHANGED <<variant, clock, ticks>>

\* a note that also writes the days column
NoteRow_Days(row, note) ==
  IF row = NoRow THEN NoRow ELSE [row EXCEPT !.note = Some(note), !.days = 0]

\* UPDATE license_keys SET note = ? WHERE license_key = ?
NoteRow(row, note) == IF row = NoRow THEN NoRow ELSE [row EXCEPT !.note = Some(note)]

admin_set_note(token, key, note, log) ==
  /\ IF ~require_admin(token)
       THEN /\ Answer(log, AdminKeyResp("set_note", token, key, Unauthorized))
            /\ UNCHANGED store
       ELSE /\ Answer(log, AdminKeyResp("set_note", token, key, AfterUpdate(key)))
            /\ store' = [store EXCEPT ![key] = NoteRow(@, note)]
  /\ UNCHANGED <<variant, clock, ticks, proc, hist>>

\* GET /admin/keys: the rows of the table (main.py shows a lifetime key's
\* expiry as "NEVER")
admin_list_keys(token, log) ==
  /\ IF ~require_admin(token)
       THEN Answer(log, [op |-> "list_keys", token |-> token,
                         code |-> Unauthorized.code, detail |-> Unauthorized.detail,
                         keys |-> {}])
       ELSE Answer(log, [op |-> "list_keys", token |-> token,
                         code |-> 200, detail |-> "ok",
                         keys |-> {k \in Keys : store[k] # NoRow}])
  /\ UNCHANGED <<variant, store, clock, ticks, proc, hist>>


(***************************************************************************)
(* POST /admin/create_keys.                                                 *)
(***************************************************************************)
KeyTypes == {"lifetime", "timed"}
\* the counts and days the model's admin asks for
CountIn == 0 .. MaxCount
DaysIn == 0 .. MaxDays

\* server.py: for _try in range(10)
RetryLimit == 10
Exhausted == "exhausted"

\* server.py AdminCreateReq: count: Field(ge=1, le=200), days: Field(ge=0, le=3650);
\* FastAPI answers 422 before the handler runs
ServerSchemaOk(count, days) ==
  /\ count >= 1 /\ count <= ServerMaxCount
  /\ days >= 0 /\ days <= ServerMaxDays

\* main.py 77-80: the reason the handler refuses the arguments, or ""
MainArgError(key_type, count, days) ==
  IF count < 1 \/ count > MainMaxCount THEN "count must be 1..500"
  ELSE IF key_type = "timed" /\ days < 1 THEN "timed keys need days >= 1"
  ELSE ""

\* the days column of a new row: main.py 81-82 and the INSERT; server.py 176
StoredDays(key_type, days) ==
  IF variant = "main" THEN (IF key_type = "lifetime" THEN 0 ELSE days)
  ELSE (IF key_type = "timed" THEN days ELSE 0)

\* the row an INSERT makes: main.py gives note "" and revoked 0, server.py
\* leaves note NULL and revoked at its default 0
NewRow(key_type, days) ==
  Row(key_type, StoredDays(key_type, days), clock,
      IF variant = "main" THEN Some("") ELSE NULL)

ExistingKeys == {k \in Keys : store[k] # NoRow}

\* the keys in the table when draw i is inserted: those committed and those
\* this batch has inserted so far
Taken(draws, i) == ExistingKeys \cup ({draws[j] : j \in 1 .. (i - 1)} \ {Exhausted})

\* One slot of the batch.  main.py draws one key and INSERTs it; the PRIMARY
\* KEY refuses a taken key with sqlite3.IntegrityError.  server.py draws up to
\* RetryLimit keys until one is not taken, and goes on to the next slot
\* without a key when all of them were taken.
DrawOk(space, draws, i) ==
  IF variant = "main" THEN draws[i] \in space
  ELSE IF draws[i] = Exhausted THEN Taken(draws, i) # {}
  ELSE RetryLimit >= 1 /\ draws[i] \in space \ Taken(draws, i)

Collides(draws, i) == draws[i] \in Taken(draws, i)

\* the keys the batch inserted, in order
CreatedKeys(draws) == SelectSeq(draws, LAMBDA k : k # Exhausted)

Range(f) == {f[i] : i \in DOMAIN f}

CreateResp(token, key_type, count, days, code, detail, keys) ==
  [op |-> "create_keys", token |-> token, key_type |-> key_type,
   count |-> count, days |-> days, code |-> code, detail |-> detail, keys |-> keys]

\* the loop of INSERTs and the commit
InsertBatch(token, key_type, count, days, space, log) ==
  \E draws \in [1 .. count -> space \cup {Exhausted}] :
    /\ \A i \in 1 .. count : DrawOk(space, draws, i)
    /\ IF variant = "main" /\ \E i \in 1 .. count : Collides(draws, i)
         THEN \* IntegrityError leaves the handler; nothing was committed
              /\ Answer(log, CreateResp(token, key_type, count, days, 500,
                                         "IntegrityError", <<>>))
              /\ UNCHANGED store
         ELSE /\ store' = [k \in Keys |->
                             IF k \in Range(CreatedKeys(draws))
                               THEN NewRow(key_type, days) ELSE store[k]]
              /\ Answer(log, CreateResp(token, key_type, count, days, 200, "ok",
                                         CreatedKeys(draws)))

admin_create_keys(token, key_type, count, days, space, log) ==
  /\ IF variant = "server" /\ ~ServerSchemaOk(count, days)
       THEN /\ Answer(log, CreateResp(token, key_type, count, days, 422,
                                       "validation error", <<>>))
            /\ UNCHANGED store
       ELSE IF ~require_admin(token)
         THEN /\ Answer(log, CreateResp(token, key_type, count, days,
                                         Unauthorized.code, Unauthorized.detail, <<>>))
              /\ UNCHANGED store
       ELSE IF variant = "main" /\ MainArgError(key_type, count, days) # ""
         THEN /\ Answer(log, CreateResp(token, key_type, count, days, 400,
                                         MainArgError(key_type, count, days), <<>>))
              /\ UNCHANGED store
       ELSE InsertBatch(token, key_type, count, days, space, log)
  /\ UNCHANGED <<variant, clock, ticks, proc, hist>>

(***************************************************************************)
(* The system: requests arrive in any order and interleave.  Five           *)
(* specifications run the same handlers in five environments.  In Spec,     *)
(* SpecTime and SpecFrame the admin holds the credential and the admin      *)
(* responses are not kept.                                                  *)
(*                                                                          *)
(* Spec, the race: every worker of Procs serves /activate concurrently,     *)
(* the requests are about one key (unissued until the generator draws it)   *)
(* and bring one of two hwids, and the clock moves by seconds, RaceTicks    *)
(* times.                                                                   *)
(*                                                                          *)
(* SpecTime, the calendar: one worker serves /activate, the requests are    *)
(* about one key and bring any hwid, the empty one included, and the clock  *)
(* moves by seconds and by days, MaxTicks times.                            *)
(*                                                                          *)
(* SpecAdmin, the admin side: admin requests bring any token and are about  *)
(* any key, of which the generator draws one, so that the other is never    *)
(* issued; every admin response is kept in adminResp; one worker serves     *)
(* /activate with one hwid; the clock stands still.                         *)
(*                                                                          *)
(* SpecBatch, the batches: the generator draws from all of Keys, create     *)
(* requests bring any token and every create response is kept, one worker   *)
(* serves /activate, and the clock moves by seconds, BatchTicks times.      *)
(*                                                                          *)
(* SpecFrame, the table: the generator draws from all of Keys, the keys     *)
(* are issued in batches of one, and every admin operation on a key is      *)
(* about any of them, so that two rows live side by side; one worker        *)
(* serves /activate for any key; the clock stands still.                    *)
(***************************************************************************)
OneKey == {"K1"}
OneWorker == {1}
OneHwid == {"hwA"}
TwoHwids == {"hwA", "hwB"}

Activation(workers, space, hwids) ==
  \/ \E p \in workers, k \in space, h \in hwids : activate_select(p, k, h)
  \/ \E p \in workers : activate_expiry(p)
  \/ \E p \in workers : activate_bind_now(p)
  \/ \E p \in workers : activate_bind_exp(p)
  \/ \E p \in workers : activate_update(p)
  \/ \E p \in workers : activate_return(p)

Create(space, tokens, log) ==
  \E t \in tokens, kt \in KeyTypes, c \in CountIn, d \in DaysIn :
    admin_create_keys(t, kt, c, d, space, log)

\* a batch of one key
CreateOne(space, tokens, log) ==
  \E t \in tokens, kt \in KeyTypes, d \in DaysIn :
    admin_create_keys(t, kt, 1, d, space, log)

Revoke(space, tokens, log) == \E t \in tokens, k \in space : admin_revoke(t, k, log)

ResetHwid(space, tokens, log) == \E t \in tokens, k \in space : admin_reset_hwid(t, k, log)

SetNote(space, tokens, log) ==
  \E t \in tokens, k \in space, n \in Notes : admin_set_note(t, k, n, log)

ListKeys(tokens, log) == \E t \in tokens : admin_list_keys(t, log)

TheAdmin == {ADMIN_TOKEN}

Next ==
  \/ TickSecond(RaceTicks)
  \/ Activation(Procs, OneKey, TwoHwids)
  \/ Create(OneKey, TheAdmin, FALSE)
  \/ Revoke(OneKey, TheAdmin, FALSE)
  \/ ResetHwid(OneKey, TheAdmin, FALSE)

Spec == Init /\ [][Next]_vars

NextTime ==
  \/ TickSecond(MaxTicks)
  \/ TickDay(MaxTicks)
  \/ Activation(OneWorker, OneKey, Hwids)
  \/ Create(OneKey, TheAdmin, FALSE)
  \/ Revoke(OneKey, TheAdmin, FALSE)
  \/ ResetHwid(OneKey, TheAdmin, FALSE)

SpecTime == Init /\ [][NextTime]_vars

NextAdmin ==
  \/ Activation(OneWorker, OneKey, OneHwid)
  \/ Create(OneKey, Tokens, TRUE)
  \/ Revoke(Keys, Tokens, TRUE)
  \/ ResetHwid(Keys, Tokens, TRUE)
  \/ SetNote(Keys, Tokens, TRUE)
  \/ ListKeys(Tokens, TRUE)

SpecAdmin == Init /\ [][NextAdmin]_vars

NextBatch ==
  \/ TickSecond(BatchTicks)
  \/ Activation(OneWorker, Keys, OneHwid)
  \/ Create(Keys, Tokens, TRUE)

SpecBatch == Init /\ [][NextBatch]_vars

NextFrame ==
  \/ Activation(OneWorker, Keys, OneHwid)
  \/ CreateOne(Keys, TheAdmin, FALSE)
  \/ Revoke(Keys, TheAdmin, FALSE)
  \/ ResetHwid(Keys, TheAdmin, FALSE)
  \/ SetNote(Keys, TheAdmin, FALSE)

SpecFrame == Init /\ [][NextFrame]_vars

(***************************************************************************)
(* The outcomes of the specification.  A response of /activate is read in   *)
(* the specification's terms: a refusal by its detail, a 200 as Bound when  *)
(* the request wrote the binding and as Ok when it did not (main.py says so *)
(* in "status"; server.py's 200 carries no status).  Invalid is FastAPI's   *)
(* refusal of a request body, which the specification leaves out.           *)
(***************************************************************************)
Outcome(pr) ==
  IF pr.resp.code = 200 THEN (IF pr.wrote THEN "Bound" ELSE "Ok")
  ELSE IF pr.resp.code = 422 THEN "Invalid"
  ELSE IF pr.resp.detail \in {"Invalid key", "Key not found"} THEN "NotFound"
  ELSE IF pr.resp.detail = "Key revoked" THEN "Revoked"
  ELSE IF pr.resp.detail = "Key expired" THEN "Expired"
  ELSE "HwidMismatch"

\* worker p holds the response of a finished request
Done(p) == proc[p].pc = "done"

\* the step is an admin request whose response adminResp' records
AdminStep == adminResp' # adminResp

(***************************************************************************)
(* C1  Exclusivity: of the activations of one key with different hwids, as  *)
(* long as the key is neither reset nor revoked, at most one is told that   *)
(* it bound the key; whenever two of them overlap, the other gets           *)
(* HwidMismatch.                                                            *)
(***************************************************************************)
C1_Exclusivity == \A k \in Keys : ~hist[k].second

(***************************************************************************)
(* C2  Monotonic revocation: once a revoke of a key has answered ok, every  *)
(* activation of the key that is made afterwards, with whatever hwid,       *)
(* answers Revoked.                                                         *)
(***************************************************************************)
C2_MonotonicRevocation ==
  \A p \in Procs :
    (Done(p) /\ proc[p].afterRevoke /\ Outcome(proc[p]) # "Invalid")
      => Outcome(proc[p]) = "Revoked"

(***************************************************************************)
(* C3  Idempotent re-activation: after an hwid was told it bound the key,   *)
(* and with no reset or revoke since, every activation with the same hwid   *)
(* made while the key has not expired answers Ok with the expiry of that    *)
(* first activation, and writes nothing.                                    *)
(***************************************************************************)
C3_IdempotentReactivation ==
  \A p \in Procs :
    (Done(p) /\ proc[p].sinceOwn /\ hist[proc[p].key].first # NULL) =>
      LET f == hist[proc[p].key].first[1]
          expired == /\ f.expires_at # NULL
                     /\ proc[p].t_check # NULL
                     /\ proc[p].t_check[1] > f.expires_at[1]
      IN ~expired =>
           /\ Outcome(proc[p]) = "Ok"
           /\ proc[p].resp.expires_at = f.expires_at
           /\ ~proc[p].wrote

(***************************************************************************)
(* C4  Check order: an activation of a timed, unrevoked key that is bound   *)
(* to one hwid and has expired, made with another hwid, answers             *)
(* HwidMismatch, not Expired.                                               *)
(***************************************************************************)
C4_MismatchBeforeExpiry ==
  \A p \in Procs :
    (/\ Done(p)
     /\ proc[p].row # NoRow
     /\ Outcome(proc[p]) # "Invalid") =>
      ((/\ ~proc[p].row.revoked
        /\ proc[p].row.key_type = "timed"
        /\ proc[p].row.hwid # NULL
        /\ proc[p].row.hwid # Some(proc[p].hwid)
        /\ proc[p].expiredAtSel)
         => Outcome(proc[p]) = "HwidMismatch")

(***************************************************************************)
(* C5  Reset: after a reset of a bound, unrevoked key has answered ok, the  *)
(* next activation of the key, with whatever hwid, answers Bound and has    *)
(* stored its hwid with an activation time of its own.                      *)
(***************************************************************************)
C5_ResetSemantics ==
  \A p \in Procs :
    (Done(p) /\ proc[p].afterReset) =>
      /\ Outcome(proc[p]) = "Bound"
      /\ proc[p].activated_at # NULL

(***************************************************************************)
(* C6  Expiry boundary: for a timed key of one day, first activated at t,   *)
(* an activation by its owner at t + 1 day - 1 second answers Ok and one    *)
(* at t + 1 day + 1 second answers Expired; the owner's activation answers  *)
(* Expired exactly when the clock it reads is past the stored expiry.       *)
(***************************************************************************)
C6_ExpiryBoundary ==
  \A p \in Procs :
    (/\ Done(p)
     /\ proc[p].row # NoRow
     /\ proc[p].hwid # "") =>
      ((/\ ~proc[p].row.revoked
        /\ proc[p].row.key_type = "timed"
        /\ proc[p].row.days = 1
        /\ proc[p].row.hwid = Some(proc[p].hwid)
        /\ proc[p].row.activated_at # NULL
        /\ proc[p].row.expires_at # NULL
        /\ proc[p].t_check # NULL) =>
         LET t == proc[p].row.activated_at[1]
             now == proc[p].t_check[1]
         IN /\ now = t + Day - Second => Outcome(proc[p]) = "Ok"
            /\ now = t + Day + Second => Outcome(proc[p]) = "Expired"
            /\ Outcome(proc[p]) = "Expired" <=> now > proc[p].row.expires_at[1])

(***************************************************************************)
(* C7  Lifetime keys: a lifetime key never has an expiry, no activation of  *)
(* it answers Expired however far the clock has gone, and the activation    *)
(* of an unrevoked one by its owner succeeds and reports no expiry.         *)
(***************************************************************************)
C7_LifetimeNeverExpires ==
  /\ \A k \in Keys :
       (store[k] # NoRow /\ store[k].key_type = "lifetime")
         => store[k].expires_at = NULL
  /\ \A p \in Procs :
       (Done(p) /\ proc[p].row # NoRow) =>
         (proc[p].row.key_type = "lifetime" =>
            /\ Outcome(proc[p]) # "Expired"
            /\ (~proc[p].row.revoked /\ proc[p].row.hwid = Some(proc[p].hwid))
                 => /\ proc[p].resp.code = 200
                    /\ proc[p].resp.expires_at = NULL
                    /\ variant = "main" => proc[p].resp.never)

\* the owner of a lifetime key activates it a day or more after it bound it
C7_Witness ==
  \E p \in Procs :
    /\ Done(p)
    /\ proc[p].row # NoRow
    /\ proc[p].row.key_type = "lifetime"
    /\ proc[p].row.hwid = Some(proc[p].hwid)
    /\ proc[p].row.activated_at # NULL
    /\ clock >= proc[p].row.activated_at[1] + Day - Second
    /\ Outcome(proc[p]) = "Ok"

(***************************************************************************)
(* C8  Batch creation: a create request with the credential and valid       *)
(* arguments (a count of one or more, a day or more for a timed key) that   *)
(* answers ok returns exactly count keys, all different, none of which      *)
(* existed before, each stored as an unbound, unrevoked row of the kind     *)
(* and the days asked for.                                                  *)
(***************************************************************************)
C8_BatchCreation ==
  [][(/\ AdminStep
      /\ adminResp'.op = "create_keys"
      /\ adminResp'.token = ADMIN_TOKEN
      /\ adminResp'.count >= 1
      /\ adminResp'.key_type = "timed" => adminResp'.days >= 1
      /\ adminResp'.code = 200) =>
       LET r == adminResp'
       IN /\ Len(r.keys) = r.count
          /\ \A i, j \in 1 .. Len(r.keys) : i # j => r.keys[i] # r.keys[j]
          /\ \A i \in 1 .. Len(r.keys) :
               /\ store[r.keys[i]] = NoRow
               /\ store'[r.keys[i]] # NoRow
               /\ store'[r.keys[i]].key_type = r.key_type
               /\ r.key_type = "timed" => store'[r.keys[i]].days = r.days
               /\ store'[r.keys[i]].hwid = NULL
               /\ store'[r.keys[i]].activated_at = NULL
               /\ store'[r.keys[i]].expires_at = NULL
               /\ ~store'[r.keys[i]].revoked]_vars

C10_AdminNotFound ==
  [][(/\ AdminStep
      /\ adminResp'.op \in {"revoke", "reset_hwid", "set_note"}
      /\ adminResp'.token = ADMIN_TOKEN
      /\ store[adminResp'.key] = NoRow) =>
       /\ adminResp'.code = KeyNotFound.code
       /\ store' = store]_vars

(***************************************************************************)
(* C11  Creation-time validation: a create request with the credential for  *)
(* timed keys of zero days or fewer is refused as an invalid argument and   *)
(* inserts nothing, and no timed row of the table has zero days or fewer.   *)
(***************************************************************************)
C11_TimedDaysValidated ==
  [][/\ (/\ AdminStep
         /\ adminResp'.op = "create_keys"
         /\ adminResp'.token = ADMIN_TOKEN
         /\ adminResp'.key_type = "timed"
         /\ adminResp'.days <= 0) =>
          /\ adminResp'.code \in {400, 422}
          /\ store' = store
     /\ \A k \in Keys :
          (store'[k] # NoRow /\ store'[k].key_type = "timed")
            => store'[k].days >= 1]_vars

(***************************************************************************)
(* C12  Collision handling: a create request with the credential either     *)
(* answers ok with all of its count keys, or fails with an error and        *)
(* leaves no row of the batch in the table; it never answers ok with fewer  *)
(* keys than asked for and never commits a part of a batch.                 *)
(***************************************************************************)
C12_CollisionHandling ==
  [][(/\ AdminStep
      /\ adminResp'.op = "create_keys"
      /\ adminResp'.token = ADMIN_TOKEN) =>
       LET r == adminResp'
           inserted == {k \in Keys : store[k] = NoRow /\ store'[k] # NoRow}
       IN IF r.code = 200
            THEN Len(r.keys) = r.count /\ Cardinality(inserted) = r.count
            ELSE r.code >= 400 /\ store' = store]_vars

(***************************************************************************)
(* C13  Binding immutability: once a row has an hwid, its hwid,             *)
(* activated_at and expires_at stay as they are in every step except a      *)
(* reset of the key, which clears the three of them; no activation          *)
(* overwrites an existing binding.                                          *)
(***************************************************************************)
C13_BindingImmutable ==
  [][\A k \in Keys :
       (store[k] # NoRow /\ store[k].hwid # NULL) =>
         \/ /\ store'[k].hwid = store[k].hwid
            /\ store'[k].activated_at = store[k].activated_at
            /\ store'[k].expires_at = store[k].expires_at
         \/ /\ store'[k].hwid = NULL
            /\ store'[k].activated_at = NULL
            /\ store'[k].expires_at = NULL]_vars

C15_RevokedOneWay ==
  [][\A k \in Keys :
       store[k] # NoRow =>
         /\ store'[k] # NoRow
         /\ store[k].revoked => store'[k].revoked
         /\ store'[k].revoked # store[k].revoked =>
              store'[k] = [store[k] EXCEPT !.revoked = TRUE]
         /\ (\/ store'[k].hwid # store[k].hwid
             \/ store'[k].activated_at # store[k].activated_at
             \/ store'[k].expires_at # store[k].expires_at) =>
              store'[k].revoked = store[k].revoked
         /\ (store[k].hwid # NULL /\ store'[k].hwid = NULL) =>
              (store'[k].activated_at = NULL /\ store'[k].expires_at = NULL)]_vars

\* a key that is bound and revoked: the revoke has answered ok and the
\* binding is in the row
C15_Witness ==
  \E k \in Keys :
    /\ store[k] # NoRow
    /\ store[k].revoked
    /\ hist[k].revokedOk
    /\ store[k].hwid # NULL
    /\ store[k].activated_at # NULL

(***************************************************************************)
(* C16  First-activation result: an activation that read an existing,       *)
(* unrevoked, unbound row writes its hwid and the time of the call as       *)
(* activated_at, for a timed key writes an expires_at of exactly that       *)
(* activated_at plus the key's days (none for a lifetime key), and answers  *)
(* Bound with that same expiry.                                             *)
(***************************************************************************)
C16_FirstActivationResult ==
  \A p \in Procs :
    (/\ Done(p)
     /\ proc[p].row # NoRow
     /\ Outcome(proc[p]) # "Invalid") =>
      ((~proc[p].row.revoked /\ proc[p].row.hwid = NULL) =>
         /\ Outcome(proc[p]) = "Bound"
         /\ proc[p].activated_at # NULL
         /\ proc[p].expires_at =
              IF proc[p].row.key_type = "timed"
                THEN Some(proc[p].activated_at[1] + proc[p].row.days * Day)
                ELSE NULL
         /\ proc[p].resp.expires_at = proc[p].expires_at)

(***************************************************************************)
(* C17  Expiry ordering: in every state of the table, a row that has an     *)
(* expires_at has it strictly later than its activated_at.                  *)
(***************************************************************************)
C17_ExpiryAfterActivation ==
  \A k \in Keys :
    (store[k] # NoRow /\ store[k].expires_at # NULL) =>
      /\ store[k].activated_at # NULL
      /\ store[k].expires_at[1] > store[k].activated_at[1]

C19_NoBindingOfRevoked ==
  [][\A k \in Keys :
       (store[k] # NoRow /\ store[k].revoked) =>
         \/ /\ store'[k].hwid = store[k].hwid
            /\ store'[k].activated_at = store[k].activated_at
            /\ store'[k].expires_at = store[k].expires_at
         \/ /\ store'[k].hwid = NULL
            /\ store'[k].activated_at = NULL
            /\ store'[k].expires_at = NULL]_vars

(***************************************************************************)
(* C20  A failed activation has no effect: an activation that answers       *)
(* NotFound, Revoked, HwidMismatch or Expired has written nothing; in       *)
(* particular one that answers Expired has not bound the key in that call.  *)
(***************************************************************************)
C20_FailedActivationNoEffect ==
  \A p \in Procs :
    (/\ Done(p)
     /\ Outcome(proc[p]) \in {"NotFound", "Revoked", "HwidMismatch", "Expired"})
      => ~proc[p].wrote

====
